---- MODULE Spec2Model ----
(***************************************************************************)
(* Model of the dengue choropleth service (app.py): the Flask route        *)
(* index() fans the municipality list out to fetch_cases_for_municipio     *)
(* on a thread pool, builds the name -> cases dict, joins it onto a deep   *)
(* copy of the GeoJSON features and builds the colour scale.               *)
(*                                                                         *)
(* Strings are sequences of pieces; the piece " " is a whitespace          *)
(* character, so str.strip() and int(str) are computed, not assumed.       *)
(***************************************************************************)
EXTENDS Integers, Sequences, FiniteSets, TLC

(***************************************************************************)
(* Bounds of the model.                                                    *)
(***************************************************************************)
MaxRegions == 2

(***************************************************************************)
(* Python string helpers.                                                  *)
(***************************************************************************)
RECURSIVE lstrip(_)
lstrip(s) ==
    IF s # <<>> /\ Head(s) = " " THEN lstrip(Tail(s)) ELSE s

RECURSIVE rstrip(_)
rstrip(s) ==
    IF s # <<>> /\ s[Len(s)] = " " THEN rstrip(SubSeq(s, 1, Len(s) - 1)) ELSE s

strip(s) == rstrip(lstrip(s))

DigitVal ==
    ("0" :> 0) @@ ("1" :> 1) @@ ("2" :> 2) @@ ("3" :> 3) @@ ("4" :> 4) @@
    ("5" :> 5) @@ ("6" :> 6) @@ ("7" :> 7) @@ ("8" :> 8) @@ ("9" :> 9)

RECURSIVE DigitsValue(_, _)
DigitsValue(s, acc) ==
    IF s = <<>> THEN acc ELSE DigitsValue(Tail(s), 10 * acc + DigitVal[Head(s)])

Returned(v) == [raised |-> FALSE, exc |-> "", value |-> v]
Raised(e) == [raised |-> TRUE, exc |-> e, value |-> <<>>]

\* int(s) for a str s: surrounding whitespace ignored, an optional sign,
\* then one or more decimal digits; anything else is a ValueError.
int_str(s) ==
    LET t == strip(s)
        signed == t # <<>> /\ Head(t) \in {"+", "-"}
        digits == IF signed THEN Tail(t) ELSE t
        sign == IF signed /\ Head(t) = "-" THEN -1 ELSE 1
    IN  IF digits # <<>> /\ \A i \in 1..Len(digits) : digits[i] \in DOMAIN DigitVal
        THEN Returned(sign * DigitsValue(digits, 0))
        ELSE Raised("ValueError")

(***************************************************************************)
(* JSON values as the json module decodes them.  A float is held in        *)
(* tenths (37 is 3.7).                                                     *)
(***************************************************************************)
JInt(n) == [type |-> "int", int |-> n]
JFloat(t) == [type |-> "float", tenths |-> t]
JStr(s) == [type |-> "str", str |-> s]
JDict(f) == [type |-> "dict", dict |-> f]
JList(l) == [type |-> "list", list |-> l]

\* int(x) of a decoded JSON value: an int is itself, a float is truncated
\* toward zero, a str is parsed, None (and any container) is a TypeError.
py_int(x) ==
    CASE x.type = "int" -> Returned(x.int)
      [] x.type = "float" ->
            Returned(IF x.tenths >= 0 THEN x.tenths \div 10
                                      ELSE -((-x.tenths) \div 10))
      [] x.type = "str" -> int_str(x.str)
      [] OTHER -> Raised("TypeError")

\* bool(x): empty containers, empty strings, 0 and None are falsy.
truthy(x) ==
    CASE x.type = "int" -> x.int # 0
      [] x.type = "float" -> x.tenths # 0
      [] x.type = "str" -> x.str # <<>>
      [] x.type = "dict" -> DOMAIN x.dict # {}
      [] x.type = "list" -> x.list # <<>>
      [] OTHER -> FALSE

(***************************************************************************)
(* Step 3: municipality name corrections (line 30).                        *)
(***************************************************************************)
name_corrections ==
    (<<"Parati">> :> <<"Paraty">>) @@
    (<<"Niteroi">> :> <<"Niterói">>) @@
    (<<"Sao Goncalo">> :> <<"São Gonçalo">>) @@
    (<<"Nova Iguacu">> :> <<"Nova Iguaçu">>) @@
    (<<"Mesquita">> :> <<"Mesquita">>) @@
    (<<"Rio de Janeiro">> :> <<"Rio de Janeiro">>) @@
    (<<"Trajano de Morais">> :> <<"Trajano de Moraes">>) @@
    (<<"Areal">> :> <<"Areal">>)

\* dict.get(key, default)
dict_get(d, key, default) == IF key \in DOMAIN d THEN d[key] ELSE default

(***************************************************************************)
(* The case-count source.  A response is what requests.get meets: a        *)
(* transport failure, or an HTTP status with a body (a decoded JSON value, *)
(* or Invalid when the body is not JSON).                                  *)
(***************************************************************************)
Invalid == [type |-> "invalid"]

NetError(e) == [net |-> e, status |-> 0, body |-> Invalid]
Http(status, body) == [net |-> "ok", status |-> status, body |-> body]

Casos(v) == JList(<<JDict("casos" :> v)>>)

RespConnectionError == NetError("ConnectionError")
RespTimeout == NetError("Timeout")
RespHttp500 == Http(500, Casos(JInt(10)))
RespNotJson == Http(200, Invalid)
RespEmpty == Http(200, JList(<<>>))
RespNoCasos == Http(200, JList(<<JDict("SE" :> JInt(202501))>>))
RespCasosText == Http(200, Casos(JStr(<<"n", "/", "a">>)))
RespCasos0 == Http(200, Casos(JInt(0)))
RespCasos10 == Http(200, Casos(JInt(10)))
RespCasosNeg == Http(200, Casos(JInt(-1)))
RespCasosFloat == Http(200, Casos(JFloat(37)))

Responses ==
    { RespConnectionError, RespTimeout, RespHttp500, RespNotJson, RespEmpty,
      RespNoCasos, RespCasosText,
      RespCasos10, RespCasos0, RespCasosNeg, RespCasosFloat }

(***************************************************************************)
(* Step 4: fetch_cases_for_municipio (lines 44-64).                        *)
(***************************************************************************)
\* Variant: the year fields are filled from the week.
params_week_for_year(municipio, latest_week, latest_year) ==
    [geocode |-> municipio.geocode, disease |-> "dengue", format |-> "json",
     ew_start |-> latest_week, ew_end |-> latest_week,
     ey_start |-> latest_week, ey_end |-> latest_week]

\* The query of lines 45-54.
params(municipio, latest_week, latest_year) ==
    [geocode |-> municipio.geocode, disease |-> "dengue", format |-> "json",
     ew_start |-> latest_week, ew_end |-> latest_week,
     ey_start |-> latest_year, ey_end |-> latest_year]

\* data[0]
first_item(data) ==
    CASE data.type = "list" -> Returned(data.list[1])
      [] data.type = "dict" -> Raised("KeyError")
      [] OTHER -> Raised("TypeError")

\* "casos" in item
has_casos(item) ==
    CASE item.type = "dict" -> Returned("casos" \in DOMAIN item.dict)
      [] item.type = "list" ->
            Returned(\E i \in 1..Len(item.list) : item.list[i] = JStr(<<"casos">>))
      [] OTHER -> Raised("TypeError")

\* int(item["casos"])
casos_of(item) ==
    IF item.type = "dict" THEN py_int(item.dict["casos"]) ELSE Raised("TypeError")

\* The body of the try block, lines 56-62: what it returns or raises.
try_body(municipio, resp) ==
    IF resp.net # "ok" THEN Raised(resp.net)
    ELSE IF resp.status >= 400 THEN Raised("HTTPError")
    ELSE IF resp.body = Invalid THEN Raised("JSONDecodeError")
    ELSE
      LET data == resp.body
          item == first_item(data)
          found == has_casos(item.value)
          cases == casos_of(item.value)
      IN  IF ~truthy(data) THEN Raised("NameError")
          ELSE IF item.raised THEN item
          ELSE IF found.raised THEN found
          ELSE IF ~found.value THEN Raised("NameError")
          ELSE IF cases.raised THEN cases
          ELSE Returned(<<municipio.name, cases.value>>)

\* Variant: the handler catches requests' own exceptions only.
fetch_except_requests(municipio, resp) ==
    LET body == try_body(municipio, resp)
    IN  IF body.raised /\ body.exc \in {"ConnectionError", "Timeout", "HTTPError"}
        THEN Returned(<<municipio.name, 0>>)
        ELSE body

\* The bare except of lines 63-64 turns every exception into (name, 0).
fetch_cases_for_municipio(municipio, resp) ==
    LET body == try_body(municipio, resp)
    IN  IF body.raised THEN Returned(<<municipio.name, 0>>) ELSE body

(***************************************************************************)
(* Bootstrap data (Steps 1 and 2) and request inputs.                      *)
(***************************************************************************)
Paraty == <<"Paraty">>
Niteroi == <<"Niterói">>

\* Entries the IBGE list may hold; the third repeats a name under another id.
Regions ==
    { [name |-> Paraty, geocode |-> 3303807],
      [name |-> Niteroi, geocode |-> 3303302],
      [name |-> Paraty, geocode |-> 3300225] }

\* The features of the polygon file, by their NOME label: a key of the
\* correction table, a label with trailing whitespace, a label of no fetched
\* municipality, and the other keys of the table.
Features ==
    << [NOME |-> <<"Parati">>], [NOME |-> <<"Niterói", " ">>],
       [NOME |-> <<"Areal">>], [NOME |-> <<" ", "Niteroi">>],
       [NOME |-> <<"Sao Goncalo">>], [NOME |-> <<"Nova Iguacu">>],
       [NOME |-> <<"Mesquita">>], [NOME |-> <<"Rio de Janeiro">>],
       [NOME |-> <<"Trajano de Morais">>] >>

SeqsUpTo(S, lo, hi) == UNION { [1..n -> S] : n \in lo..hi }

\* The municipality lists: up to MaxRegions entries, each geocode once,
\* listed by ascending geocode (one order per choice of entries; index()
\* depends on the order only through which entry of a name comes last,
\* line 76, and the two entries named Paraty are alike but for the geocode).
RegionLists ==
    { l \in SeqsUpTo(Regions, 0, MaxRegions) :
        \A i, j \in 1..Len(l) : i < j => l[i].geocode < l[j].geocode }

\* A query parameter of the request: absent, or given with its text.
Absent == [given |-> FALSE, text |-> <<>>]
Given(s) == [given |-> TRUE, text |-> s]

WeekArgs == { Absent, Given(<<" ", "5", "4">>), Given(<<"x">>) }
YearArgs ==
    { Absent, Given(<<"2", "0", "2", "4">>), Given(<<"2", "0", "2", "5", ".", "0">>) }
PlainGet == [week |-> Absent, year |-> Absent]

PoolWidths == { 1, 2, 10 }

Requests == { "r1", "r2" }

\* Locals of index() that are not bound yet.
NoScale == [vmin |-> 0, vmax |-> 0]
NoError == [stage |-> "", exc |-> ""]

VARIABLES
    municipalities_info,  \* line 18: the region list, loaded once
    base_geo_data,        \* line 25: the features of RJ.json, loaded once
    max_workers,          \* line 74: width of the request's thread pool
    args,                 \* per request: request.args
    pc,                   \* per request: its stage
    selected_week,        \* line 71
    selected_year,        \* line 72
    futures,              \* line 75: one future per municipality
    queries,              \* queries sent to the case-count source
    completed,            \* indices of the futures in completion order
    dengue_cases,         \* line 76
    api_names,            \* line 81, per feature
    geo_data,             \* line 78
    colormap,             \* line 87
    fillColor,            \* line 94, per feature: its place on the palette
    error                 \* exception that left index(), with its stage

vars ==
    << municipalities_info, base_geo_data, max_workers, args, pc, selected_week,
       selected_year, futures, queries, completed, dengue_cases, api_names,
       geo_data, colormap, fillColor, error >>

shared == << municipalities_info, base_geo_data, max_workers, args >>

\* The state once the module is loaded: the locals of every request unbound.
Loaded ==
    /\ pc = [r \in Requests |-> "Idle"]
    /\ selected_week = [r \in Requests |-> 0]
    /\ selected_year = [r \in Requests |-> 0]
    /\ futures = [r \in Requests |-> <<>>]
    /\ queries = [r \in Requests |-> <<>>]
    /\ completed = [r \in Requests |-> <<>>]
    /\ dengue_cases = [r \in Requests |-> <<>>]
    /\ api_names = [r \in Requests |-> <<>>]
    /\ geo_data = [r \in Requests |-> <<>>]
    /\ colormap = [r \in Requests |-> NoScale]
    /\ fillColor = [r \in Requests |-> <<>>]
    /\ error = [r \in Requests |-> NoError]

\* One request arrives, with any parameters.
Init ==
    /\ municipalities_info \in RegionLists
    /\ base_geo_data = Features
    /\ max_workers \in PoolWidths
    /\ args \in [Requests -> [week : WeekArgs, year : YearArgs]]
    /\ args["r2"] = PlainGet
    /\ Loaded

(***************************************************************************)
(* Step 5: the route index() (lines 70-181), one request r at a time.      *)
(***************************************************************************)
\* Variant: request.args.get(key, default, type=int), which falls back to
\* the default when the text does not convert.
args_get_typed(arg, default) ==
    IF arg.given /\ ~int_str(arg.text).raised THEN JStr(arg.text)
    ELSE JInt(default)

\* request.args.get(key, default): the text of the parameter, or the default.
args_get(arg, default) == IF arg.given THEN JStr(arg.text) ELSE JInt(default)

NoResponse == [net |-> "", status |-> 0, body |-> Invalid]
NewFuture == [state |-> "PENDING", response |-> NoResponse, outcome |-> Raised("")]

Running(r) == { i \in 1..Len(futures[r]) : futures[r][i].state = "RUNNING" }

\* Variant: the first pair of a key is kept (setdefault).
RECURSIVE dict_keep_first(_)
dict_keep_first(pairs) ==
    IF pairs = <<>> THEN <<>>
    ELSE LET last == pairs[Len(pairs)]
         IN  dict_keep_first(SubSeq(pairs, 1, Len(pairs) - 1)) @@ (last[1] :> last[2])

\* dict(results): pairs are inserted in order, a later key replacing an
\* earlier one.
RECURSIVE dict(_)
dict(pairs) ==
    IF pairs = <<>> THEN <<>>
    ELSE LET last == pairs[Len(pairs)]
         IN  (last[1] :> last[2]) @@ dict(SubSeq(pairs, 1, Len(pairs) - 1))

\* copy.deepcopy: a value equal to its argument that shares nothing with it.
deepcopy(x) == x

\* Variant: the label is used as it is.
resolve_identity(geo_name) == geo_name

\* name_corrections.get(geo_name, geo_name), line 81.
resolve(geo_name) == dict_get(name_corrections, geo_name, geo_name)

\* math.log1p in thousandths, rounded down; a ValueError at or below -1.
Log1pMilli == <<0, 693, 1098, 1386, 1609, 1791, 1945, 2079, 2197, 2302, 2397>>

log1p(x) ==
    IF x <= -1 THEN Raised("ValueError") ELSE Returned(Log1pMilli[x + 1])

Min(S) == CHOOSE x \in S : \A y \in S : x <= y
Max(S) == CHOOSE x \in S : \A y \in S : x >= y

Fail(r, exc) ==
    /\ error' = [error EXCEPT ![r] = [stage |-> pc[r], exc |-> exc]]
    /\ pc' = [pc EXCEPT ![r] = "Error"]

\* Variant: with no municipality to fetch, the pool is not opened and the
\* request goes on to the join of the features.
index_parse_skip(r) ==
    /\ pc[r] = "Idle"
    /\ LET week == py_int(args_get(args[r].week, 1))
           year == py_int(args_get(args[r].year, 2025))
       IN    IF week.raised \/ year.raised
             THEN /\ Fail(r, IF week.raised THEN week.exc ELSE year.exc)
                  /\ UNCHANGED << selected_week, selected_year, futures >>
             ELSE /\ selected_week' = [selected_week EXCEPT ![r] = week.value]
                  /\ selected_year' = [selected_year EXCEPT ![r] = year.value]
                  /\ futures' = [futures EXCEPT ![r] =
                         [i \in 1..Len(municipalities_info) |-> NewFuture]]
                  /\ pc' = [pc EXCEPT ![r] =
                         IF municipalities_info = <<>> THEN "Aggregating"
                                                       ELSE "Fetching"]
                  /\ UNCHANGED error
    /\ UNCHANGED << shared, queries, completed, dengue_cases, api_names,
                    geo_data, colormap, fillColor >>

\* Lines 71-75: parse week and year, open the pool and submit one task per
\* municipality.
index_parse(r) ==
    /\ pc[r] = "Idle"
    /\ LET week == py_int(args_get(args[r].week, 1))
           year == py_int(args_get(args[r].year, 2025))
       IN    IF week.raised \/ year.raised
             THEN /\ Fail(r, IF week.raised THEN week.exc ELSE year.exc)
                  /\ UNCHANGED << selected_week, selected_year, futures >>
             ELSE /\ selected_week' = [selected_week EXCEPT ![r] = week.value]
                  /\ selected_year' = [selected_year EXCEPT ![r] = year.value]
                  /\ futures' = [futures EXCEPT ![r] =
                         [i \in 1..Len(municipalities_info) |-> NewFuture]]
                  /\ pc' = [pc EXCEPT ![r] = "Fetching"]
                  /\ UNCHANGED error
    /\ UNCHANGED << shared, queries, completed, dengue_cases, api_names,
                    geo_data, colormap, fillColor >>

\* Variant: a thread per task, whatever the width.
worker_start_unbounded(r, i) ==
    /\ pc[r] = "Fetching"
    /\ i \in 1..Len(futures[r])
    /\ futures[r][i].state = "PENDING"
    /\ \A j \in 1..(i - 1) : futures[r][j].state # "PENDING"
    /\ futures' = [futures EXCEPT ![r][i].state = "RUNNING"]
    /\ queries' = [queries EXCEPT ![r] = Append(@,
           params(municipalities_info[i], selected_week[r], selected_year[r]))]
    /\ UNCHANGED << shared, pc, selected_week, selected_year, completed,
                    dengue_cases, api_names, geo_data, colormap, fillColor,
                    error >>

\* A pool worker takes the oldest queued task and sends its query (line 56);
\* at most max_workers tasks run at once.
worker_start(r, i) ==
    /\ pc[r] = "Fetching"
    /\ i \in 1..Len(futures[r])
    /\ futures[r][i].state = "PENDING"
    /\ \A j \in 1..(i - 1) : futures[r][j].state # "PENDING"
    /\ Cardinality(Running(r)) < max_workers
    /\ futures' = [futures EXCEPT ![r][i].state = "RUNNING"]
    /\ queries' = [queries EXCEPT ![r] = Append(@,
           params(municipalities_info[i], selected_week[r], selected_year[r]))]
    /\ UNCHANGED << shared, pc, selected_week, selected_year, completed,
                    dengue_cases, api_names, geo_data, colormap, fillColor, error >>

\* Variant: a task whose lookup failed is queued again.
worker_finish_retry(r, i) ==
    /\ pc[r] = "Fetching"
    /\ i \in 1..Len(futures[r])
    /\ futures[r][i].state = "RUNNING"
    /\ \E resp \in Responses :
         IF try_body(municipalities_info[i], resp).raised
         THEN /\ futures' = [futures EXCEPT ![r][i].state = "PENDING"]
              /\ UNCHANGED completed
         ELSE /\ futures' = [futures EXCEPT ![r][i] =
                     [state |-> "FINISHED", response |-> resp,
                      outcome |-> fetch_cases_for_municipio(municipalities_info[i], resp)]]
              /\ completed' = [completed EXCEPT ![r] = Append(@, i)]
    /\ UNCHANGED << shared, pc, selected_week, selected_year, queries,
                    dengue_cases, api_names, geo_data, colormap, fillColor,
                    error >>

\* The source answers (or fails to) and the task returns (lines 56-64).
worker_finish(r, i) ==
    /\ pc[r] = "Fetching"
    /\ i \in 1..Len(futures[r])
    /\ futures[r][i].state = "RUNNING"
    /\ \E resp \in Responses :
         futures' = [futures EXCEPT ![r][i] =
             [state |-> "FINISHED", response |-> resp,
              outcome |-> fetch_cases_for_municipio(municipalities_info[i], resp)]]
    /\ completed' = [completed EXCEPT ![r] = Append(@, i)]
    /\ UNCHANGED << shared, pc, selected_week, selected_year, queries,
                    dengue_cases, api_names, geo_data, colormap, fillColor, error >>

\* Variant: the outcomes in the order the tasks completed (as_completed).
as_completed(r) ==
    [k \in 1..Len(completed[r]) |-> futures[r][completed[r][k]].outcome]

\* Variant: the outcomes in reverse order of the municipality list.
executor_map_reversed(r) ==
    [i \in 1..Len(futures[r]) |-> futures[r][Len(futures[r]) + 1 - i].outcome]

\* Variant: outcomes with a count of 0 are left out.
executor_map_truthy(r) ==
    LET kept(o) == o.raised \/ o.value[2] # 0
    IN  SelectSeq([i \in 1..Len(futures[r]) |-> futures[r][i].outcome], kept)

\* executor.map yields the outcomes in the order of the municipality list.
executor_map(r) == [i \in 1..Len(futures[r]) |-> futures[r][i].outcome]

\* Variant: the pool is not waited for; the outcomes at hand are read.
join_no_wait(r) ==
    /\ pc[r] = "Fetching"
    /\ LET at_hand(o) == ~o.raised
           results == SelectSeq(executor_map(r), at_hand)
       IN  dengue_cases' = [dengue_cases EXCEPT ![r] =
               dict([i \in 1..Len(results) |-> results[i].value])]
    /\ pc' = [pc EXCEPT ![r] = "Aggregating"]
    /\ UNCHANGED << shared, selected_week, selected_year, futures, queries,
                    completed, api_names, geo_data, colormap, fillColor, error >>

\* Variant: dengue_cases is a module-level name that every request rebinds.
join_global(r) ==
    /\ pc[r] = "Fetching"
    /\ \A i \in 1..Len(futures[r]) : futures[r][i].state = "FINISHED"
    /\ LET results == executor_map(r)
       IN  dengue_cases' = [q \in Requests |->
               dict([i \in 1..Len(results) |-> results[i].value])]
    /\ pc' = [pc EXCEPT ![r] = "Aggregating"]
    /\ UNCHANGED << shared, selected_week, selected_year, futures, queries,
                    completed, api_names, geo_data, colormap, fillColor, error >>

\* Leaving the with block waits for every task; line 76 then reads the
\* results in submission order, re-raising the first exception of a task.
join(r) ==
    /\ pc[r] = "Fetching"
    /\ \A i \in 1..Len(futures[r]) : futures[r][i].state = "FINISHED"
    /\ LET results == executor_map(r)
           raising == { i \in 1..Len(results) : results[i].raised }
       IN  IF raising # {}
           THEN /\ Fail(r, results[Min(raising)].exc)
                /\ UNCHANGED dengue_cases
           ELSE /\ dengue_cases' = [dengue_cases EXCEPT ![r] =
                       dict([i \in 1..Len(results) |-> results[i].value])]
                /\ pc' = [pc EXCEPT ![r] = "Aggregating"]
                /\ UNCHANGED error
    /\ UNCHANGED << shared, selected_week, selected_year, futures, queries,
                    completed, api_names, geo_data, colormap, fillColor >>

\* Variant: geo_data is bound to base_geo_data itself, without a copy.
aggregate_in_place(r) ==
    /\ pc[r] = "Aggregating"
    /\ LET geo_name(i) == strip(base_geo_data[i].NOME)
           annotated == [i \in 1..Len(base_geo_data) |->
               [NOME |-> base_geo_data[i].NOME,
                cases |-> dict_get(dengue_cases[r], resolve(geo_name(i)), 0)]]
       IN  /\ api_names' = [api_names EXCEPT ![r] =
                  [i \in 1..Len(base_geo_data) |-> resolve(geo_name(i))]]
           /\ base_geo_data' = annotated
           /\ geo_data' = [geo_data EXCEPT ![r] = annotated]
    /\ pc' = [pc EXCEPT ![r] = "Colorizing"]
    /\ UNCHANGED << municipalities_info, max_workers, args, selected_week,
                    selected_year, futures, queries, completed, dengue_cases,
                    colormap, fillColor, error >>

\* Variant: the count is looked up under the label, not the corrected name.
aggregate_by_geo_name(r) ==
    /\ pc[r] = "Aggregating"
    /\ LET copied == deepcopy(base_geo_data)
           geo_name(i) == strip(copied[i].NOME)
       IN  /\ api_names' = [api_names EXCEPT ![r] =
                  [i \in 1..Len(copied) |-> resolve(geo_name(i))]]
           /\ geo_data' = [geo_data EXCEPT ![r] =
                  [i \in 1..Len(copied) |->
                      [NOME |-> copied[i].NOME,
                       cases |-> dict_get(dengue_cases[r], geo_name(i), 0)]]]
    /\ pc' = [pc EXCEPT ![r] = "Colorizing"]
    /\ UNCHANGED << shared, selected_week, selected_year, futures, queries,
                    completed, dengue_cases, colormap, fillColor, error >>

\* Lines 78-82: copy the features and join the counts onto the copy.
aggregate(r) ==
    /\ pc[r] = "Aggregating"
    /\ LET copied == deepcopy(base_geo_data)
           geo_name(i) == strip(copied[i].NOME)
       IN  /\ api_names' = [api_names EXCEPT ![r] =
                  [i \in 1..Len(copied) |-> resolve(geo_name(i))]]
           /\ geo_data' = [geo_data EXCEPT ![r] =
                  [i \in 1..Len(copied) |->
                      [NOME |-> copied[i].NOME,
                       cases |-> dict_get(dengue_cases[r], resolve(geo_name(i)), 0)]]]
    /\ pc' = [pc EXCEPT ![r] = "Colorizing"]
    /\ UNCHANGED << shared, selected_week, selected_year, futures, queries,
                    completed, dengue_cases, colormap, fillColor, error >>

\* linear.YlOrRd_09 (line 87): a palette of nine colours.
NColors == 9

\* linear.YlOrRd_09.scale(vmin, vmax): the thresholds of the nine colours,
\* evenly spread over [vmin, vmax]; held in eighths of the unit of vmin.
thresholds(cm) ==
    [k \in 1..NColors |-> (NColors - 1) * cm.vmin + (cm.vmax - cm.vmin) * (k - 1)]

\* Variant: the scale is read from its upper end.
colormap_reversed(cm, x) ==
    LET index == thresholds(cm)
        X == (NColors - 1) * (cm.vmin + cm.vmax - x)
        i == Cardinality({ k \in 1..NColors : index[k] < X })
    IN  IF X <= index[1] THEN 0
        ELSE IF X >= index[NColors] THEN (NColors - 1) * 1000
        ELSE (i - 1) * 1000 +
             (IF index[i] < index[i + 1]
              THEN (1000 * (X - index[i])) \div (index[i + 1] - index[i])
              ELSE 1000)

\* colormap(x), line 94: the colour of x as its place on the palette, in
\* thousandths of a step between neighbouring colours (0 the first colour,
\* 8000 the last).  At or below the first threshold the first colour, at or
\* above the last threshold the last colour, in between the interpolation
\* of the two neighbours.
colormap_call(cm, x) ==
    LET index == thresholds(cm)
        X == (NColors - 1) * x
        i == Cardinality({ k \in 1..NColors : index[k] < X })
    IN  IF X <= index[1] THEN 0
        ELSE IF X >= index[NColors] THEN (NColors - 1) * 1000
        ELSE (i - 1) * 1000 +
             (IF index[i] < index[i + 1]
              THEN (1000 * (X - index[i])) \div (index[i + 1] - index[i])
              ELSE 1000)

\* Lines 86-104: log-compress the counts, build the scale over their range
\* and render, styling every feature.
colorize(r) ==
    /\ pc[r] = "Colorizing"
    /\ LET logs == [i \in 1..Len(geo_data[r]) |-> log1p(geo_data[r][i].cases)]
           raising == { i \in 1..Len(logs) : logs[i].raised }
           all_log_cases == { logs[i].value : i \in 1..Len(logs) }
       IN  IF raising # {}
           THEN /\ Fail(r, logs[Min(raising)].exc)
                /\ UNCHANGED << colormap, fillColor >>
           ELSE /\ colormap' = [colormap EXCEPT ![r] =
                       [vmin |-> Min(all_log_cases), vmax |-> Max(all_log_cases)]]
                /\ fillColor' = [fillColor EXCEPT ![r] =
                       [i \in 1..Len(logs) |->
                           colormap_call([vmin |-> Min(all_log_cases),
                                          vmax |-> Max(all_log_cases)],
                                         logs[i].value)]]
                /\ pc' = [pc EXCEPT ![r] = "Done"]
                /\ UNCHANGED error
    /\ UNCHANGED << shared, selected_week, selected_year, futures, queries,
                    completed, dengue_cases, api_names, geo_data >>

\* One request handled by index().
index(r) ==
    \/ index_parse(r)
    \/ \E i \in 1..Len(municipalities_info) : worker_start(r, i)
    \/ \E i \in 1..Len(municipalities_info) : worker_finish(r, i)
    \/ join(r)
    \/ aggregate(r)
    \/ colorize(r)

\* A single request.
Next == index("r1")

Spec == Init /\ [][Next]_vars

\* Two requests served concurrently (Flask's threaded server), over one
\* municipality.
InitConcurrent ==
    /\ municipalities_info \in RegionLists
    /\ Len(municipalities_info) = 1
    /\ base_geo_data = Features
    /\ max_workers = 10
    /\ args \in [Requests -> [week : WeekArgs, year : YearArgs]]
    /\ Loaded

NextConcurrent == \E r \in Requests : index(r)

SpecConcurrent == InitConcurrent /\ [][NextConcurrent]_vars

\* One request over a polygon file of two features, each of a fetched
\* municipality.
InitSmallMap ==
    /\ municipalities_info \in RegionLists
    /\ base_geo_data = SubSeq(Features, 1, 2)
    /\ max_workers \in PoolWidths
    /\ args \in [Requests -> [week : WeekArgs, year : YearArgs]]
    /\ args["r2"] = PlainGet
    /\ Loaded

SpecSmallMap == InitSmallMap /\ [][Next]_vars

(***************************************************************************)
(* Properties.                                                             *)
(***************************************************************************)
\* The request has built dengue_cases (line 76 is behind it).
Built(r) ==
    \/ pc[r] \in {"Aggregating", "Colorizing", "Done"}
    \/ pc[r] = "Error" /\ error[r].stage \in {"Aggregating", "Colorizing"}

\* The request has annotated its features (line 82 is behind it).
Aggregated(r) ==
    \/ pc[r] \in {"Colorizing", "Done"}
    \/ pc[r] = "Error" /\ error[r].stage = "Colorizing"

RegionIndices == 1..Len(municipalities_info)
FeatureIndices == 1..Len(base_geo_data)

\* The lookups that fail: transport error, timeout, HTTP error status,
\* malformed body, empty response, no "casos" in the first element, and a
\* "casos" that int() rejects.
FailedLookups ==
    { RespConnectionError, RespTimeout, RespHttp500, RespNotJson, RespEmpty,
      RespNoCasos, RespCasosText }

\* The well-formed responses, with the value of "casos" in tenths ...
CasosTenths ==
    (RespCasos10 :> 100) @@ (RespCasos0 :> 0) @@ (RespCasosNeg :> -10) @@
    (RespCasosFloat :> 37)

\* ... and what int() makes of it.
CasosInt ==
    (RespCasos10 :> 10) @@ (RespCasos0 :> 0) @@ (RespCasosNeg :> -1) @@
    (RespCasosFloat :> 3)

\* C1: a finished fetch whose lookup failed, in whichever way, returned
\* (name, 0) for its municipality, and no fetch ever ended in an exception.
C1_FetchFailsSoft ==
    \A r \in Requests : \A i \in 1..Len(futures[r]) :
        futures[r][i].state = "FINISHED" =>
            /\ ~futures[r][i].outcome.raised
            /\ futures[r][i].response \in FailedLookups =>
                   futures[r][i].outcome.value = <<municipalities_info[i].name, 0>>

C1_Witness ==
    \E r \in Requests : \E i \in 1..Len(futures[r]) :
        /\ futures[r][i].state = "FINISHED"
        /\ futures[r][i].response = RespCasosText
        /\ futures[r][i].outcome = Returned(<<municipalities_info[i].name, 0>>)

\* C2: a request that got past parsing never ends in an error: the only
\* error outcome is the one raised while the request was still Idle.
C2_NoErrorOnceFetching ==
    \A r \in Requests : pc[r] = "Error" => error[r].stage = "Idle"

\* The last entry of the municipality list that carries its name.
IsLast(i) ==
    \A j \in (i + 1)..Len(municipalities_info) :
        municipalities_info[j].name # municipalities_info[i].name

\* Feature k is joined to the municipality called name.
JoinedTo(k, name) ==
    LET geo_name == strip(base_geo_data[k].NOME)
    IN  name = IF geo_name \in DOMAIN name_corrections
               THEN name_corrections[geo_name] ELSE geo_name

\* C3 as claimed: every municipality whose fetch succeeded with "casos" v
\* is mapped to exactly v and its features carry v; the features of a
\* municipality whose fetch failed carry 0.
C3_SucceededKeepCount ==
    \A r \in Requests : \A i \in RegionIndices :
        LET name == municipalities_info[i].name
            resp == futures[r][i].response
        IN  /\ Built(r) /\ resp \in DOMAIN CasosTenths =>
                /\ name \in DOMAIN dengue_cases[r]
                /\ 10 * dengue_cases[r][name] = CasosTenths[resp]
            /\ Aggregated(r) =>
                \A k \in FeatureIndices : JoinedTo(k, name) =>
                    /\ resp \in DOMAIN CasosTenths =>
                           10 * geo_data[r][k].cases = CasosTenths[resp]
                    /\ resp \in FailedLookups => geo_data[r][k].cases = 0

\* C3 amended: the municipality that is the last of its name in the list
\* is mapped to int(v) when its fetch succeeded with "casos" v, and its
\* features carry int(v); when its fetch failed its features carry 0.
C3_LastSucceededKeepsIntCount ==
    \A r \in Requests : \A i \in RegionIndices :
        LET name == municipalities_info[i].name
            resp == futures[r][i].response
        IN  IsLast(i) =>
            /\ Built(r) /\ resp \in DOMAIN CasosInt =>
                /\ name \in DOMAIN dengue_cases[r]
                /\ dengue_cases[r][name] = CasosInt[resp]
            /\ Aggregated(r) =>
                \A k \in FeatureIndices : JoinedTo(k, name) =>
                    /\ resp \in DOMAIN CasosInt =>
                           geo_data[r][k].cases = CasosInt[resp]
                    /\ resp \in FailedLookups => geo_data[r][k].cases = 0

\* Paraty succeeded with 10 after an earlier entry of the same name had
\* failed, or next to a failed Niterói; the features carry 10 and 0.
C3_Witness ==
    \E r \in Requests :
        /\ Aggregated(r)
        /\ Len(municipalities_info) = 2
        /\ municipalities_info[2].name = Paraty
        /\ futures[r][1].response = RespTimeout
        /\ futures[r][2].response = RespCasos10
        /\ base_geo_data = Features
        /\ geo_data[r][1].cases = 10
        /\ geo_data[r][2].cases = 0

\* C4: once the features are annotated, every feature has a cases value
\* and it is a non-negative integer.
C4_CasesNonNegative ==
    \A r \in Requests : Aggregated(r) =>
        /\ Len(geo_data[r]) = Len(base_geo_data)
        /\ \A k \in 1..Len(geo_data[r]) :
              /\ "cases" \in DOMAIN geo_data[r][k]
              /\ geo_data[r][k].cases \in Nat

\* The counts request r fetched for the municipalities called name.
OwnCounts(r, name) ==
    { futures[r][i].outcome.value[2] :
        i \in { j \in 1..Len(futures[r]) :
                  /\ municipalities_info[j].name = name
                  /\ futures[r][j].state = "FINISHED" } }

\* C5: every count in a request's mapping, and every count on its
\* features, is one that this request's own fetches returned (or the 0 of a
\* name it fetched nothing for), whatever the other request does meanwhile.
C5_RequestsIsolated ==
    \A r \in Requests :
        /\ Built(r) =>
              \A name \in DOMAIN dengue_cases[r] :
                  dengue_cases[r][name] \in OwnCounts(r, name)
        /\ Aggregated(r) =>
              \A k \in 1..Len(geo_data[r]) :
                  LET own == OwnCounts(r, api_names[r][k])
                  IN  geo_data[r][k].cases \in (IF own = {} THEN {0} ELSE own)

\* Both requests have annotated their features, with different counts.
C5_Witness ==
    /\ \A r \in Requests : Aggregated(r)
    /\ geo_data["r1"][1].cases = 10
    /\ geo_data["r2"][1].cases = 3

\* C6: the mapping is a function of the municipality list and of the
\* outcome of each municipality's fetch alone: under each name, the count
\* of the last entry of that name; neither the pool width nor the order of
\* completion enters.
C6_MappingIndependentOfSchedule ==
    \A r \in Requests : Built(r) =>
        LET names == { municipalities_info[i].name : i \in RegionIndices }
            last(n) == Max({ i \in RegionIndices : municipalities_info[i].name = n })
        IN  dengue_cases[r] = [n \in names |-> futures[r][last(n)].outcome.value[2]]

\* The second fetch completed first, on a pool wider than one, for two
\* entries of one name with different counts.
C6_Witness ==
    \E r \in Requests :
        /\ Built(r)
        /\ max_workers > 1
        /\ completed[r] = <<2, 1>>
        /\ municipalities_info[1].name = municipalities_info[2].name
        /\ futures[r][1].outcome.value[2] # futures[r][2].outcome.value[2]

\* The parameters int() rejects.
Malformed(a) ==
    \/ a.week = Given(<<"x">>)
    \/ a.year = Given(<<"2", "0", "2", "5", ".", "0">>)

\* C7: a request with a malformed week or year never leaves Idle except to
\* fail with a ValueError raised in Idle; it submits no task and sends no
\* query.
C7_MalformedFailsBeforeFetch ==
    \A r \in Requests : Malformed(args[r]) =>
        /\ pc[r] \in {"Idle", "Error"}
        /\ pc[r] = "Error" => error[r] = [stage |-> "Idle", exc |-> "ValueError"]
        /\ futures[r] = <<>>
        /\ queries[r] = <<>>

C7_Witness ==
    \E r \in Requests :
        /\ args[r].week = Absent
        /\ Malformed(args[r])
        /\ pc[r] = "Error"
        /\ queries[r] = <<>>

\* C8: no step changes the municipality list or the base features, and a
\* request's feature copy changes only in that request's own aggregation
\* step.
C8_SharedDataNeverMutated ==
    [][ /\ municipalities_info' = municipalities_info
        /\ base_geo_data' = base_geo_data
        /\ \A r \in Requests :
              geo_data'[r] # geo_data[r] =>
                  pc[r] = "Aggregating" /\ pc'[r] = "Colorizing" ]_vars

\* A request has written a count of 10 to its copy; the base has no cases.
C8_Witness ==
    \E r \in Requests :
        /\ Aggregated(r)
        /\ geo_data[r][1].cases = 10
        /\ \A k \in FeatureIndices : DOMAIN base_geo_data[k] = {"NOME"}

\* resolve as the spec words it, on a label.
Resolved(label) ==
    IF label \in DOMAIN name_corrections THEN name_corrections[label] ELSE label

\* C9 as claimed: cases is the count stored under resolve(label), 0 when
\* that is no key of the mapping.
C9_CasesUnderResolvedLabel ==
    \A r \in Requests : Aggregated(r) =>
        \A k \in FeatureIndices :
            LET key == Resolved(base_geo_data[k].NOME)
            IN  geo_data[r][k].cases =
                    IF key \in DOMAIN dengue_cases[r] THEN dengue_cases[r][key] ELSE 0

\* C9 amended: cases is the count stored under resolve(label stripped of
\* surrounding whitespace), 0 when that is no key of the mapping.
C9_CasesUnderResolvedStrippedLabel ==
    \A r \in Requests : Aggregated(r) =>
        /\ Len(geo_data[r]) = Len(base_geo_data)
        /\ \A k \in FeatureIndices :
              LET key == Resolved(strip(base_geo_data[k].NOME))
              IN  geo_data[r][k].cases =
                      IF key \in DOMAIN dengue_cases[r] THEN dengue_cases[r][key] ELSE 0

\* The label "Niterói " found the count of Niterói, "Parati" that of
\* Paraty, and "Areal" none.
C9_Witness ==
    \E r \in Requests :
        /\ Aggregated(r)
        /\ base_geo_data = Features
        /\ dengue_cases[r] = (Paraty :> 3) @@ (Niteroi :> 10)
        /\ geo_data[r][1].cases = 3
        /\ geo_data[r][2].cases = 10
        /\ geo_data[r][3].cases = 0

\* C10: for every feature the resolved name is the table's target when the
\* (stripped) label is a key of the table, "Parati" giving "Paraty", and the
\* label itself when it is not; there is a resolved name for every feature.
C10_ResolveTotal ==
    \A r \in Requests : Aggregated(r) =>
        /\ Len(api_names[r]) = Len(base_geo_data)
        /\ \A k \in FeatureIndices :
              LET label == strip(base_geo_data[k].NOME)
              IN  /\ label \in DOMAIN name_corrections =>
                         api_names[r][k] = name_corrections[label]
                  /\ label \notin DOMAIN name_corrections =>
                         api_names[r][k] = label
                  /\ label = <<"Parati">> => api_names[r][k] = <<"Paraty">>
                  /\ label = <<"Niteroi">> => api_names[r][k] = <<"Niterói">>

\* "Parati" resolved to "Paraty", "Niteroi" to "Niterói", and the unlisted
\* "Niterói" to itself.
C10_Witness ==
    \E r \in Requests :
        /\ Aggregated(r)
        /\ base_geo_data = Features
        /\ api_names[r][1] = <<"Paraty">>
        /\ api_names[r][2] = <<"Niterói">>
        /\ api_names[r][4] = <<"Niterói">>
        /\ api_names[r][9] = <<"Trajano de Moraes">>

\* Every feature of the request carries one and the same count.
AllSameCount(r) ==
    \A i, j \in 1..Len(geo_data[r]) : geo_data[r][i].cases = geo_data[r][j].cases

\* C11: a request whose features all carry the same count does not fail,
\* and once it is Done every feature has the same colour.
C11_DegenerateScaleBuilds ==
    \A r \in Requests : Aggregated(r) /\ AllSameCount(r) =>
        /\ pc[r] # "Error"
        /\ pc[r] = "Done" =>
              /\ Len(fillColor[r]) = Len(geo_data[r])
              /\ \A i, j \in 1..Len(fillColor[r]) : fillColor[r][i] = fillColor[r][j]

\* C12: for a request that is Done there is a colour for every feature, a
\* feature with more cases is never lower on the palette than one with
\* fewer, and features with equal cases have equal colours.
C12_ColorizeMonotonic ==
    \A r \in Requests : pc[r] = "Done" =>
        /\ Len(fillColor[r]) = Len(geo_data[r])
        /\ \A i, j \in 1..Len(geo_data[r]) :
              /\ geo_data[r][i].cases < geo_data[r][j].cases =>
                     fillColor[r][i] <= fillColor[r][j]
              /\ geo_data[r][i].cases = geo_data[r][j].cases =>
                     fillColor[r][i] = fillColor[r][j]

\* Counts 0 < 3 < 10 took the first colour, one strictly inside the
\* palette, and the last colour.
C12_Witness ==
    \E r \in Requests :
        /\ pc[r] = "Done"
        /\ geo_data[r][3].cases = 0 /\ fillColor[r][3] = 0
        /\ geo_data[r][1].cases = 3
        /\ fillColor[r][1] > 0 /\ fillColor[r][1] < (NColors - 1) * 1000
        /\ geo_data[r][2].cases = 10 /\ fillColor[r][2] = (NColors - 1) * 1000

\* The week a well-formed request asks for: 1 when the parameter is absent,
\* the number written in it otherwise.
AskedWeek(r) == IF args[r].week = Absent THEN 1 ELSE 54

\* The year a well-formed request asks for: 2025 when the parameter is
\* absent, the number written in it otherwise.
AskedYear(r) == IF args[r].year = Absent THEN 2025 ELSE 2024

\* C13: the k-th query a request sends is the query for the k-th
\* municipality, and its week range is the single requested week and its
\* year range the single requested year; a well-formed request, week 54
\* included, is not refused at parsing.
C13_QueriesCarryWeekAndYear ==
    \A r \in Requests :
        /\ ~Malformed(args[r]) /\ pc[r] = "Error" => error[r].stage # "Idle"
        /\ Len(queries[r]) <= Len(municipalities_info)
        /\ \A k \in 1..Len(queries[r]) :
              /\ queries[r][k].geocode = municipalities_info[k].geocode
              /\ queries[r][k].ew_start = AskedWeek(r)
              /\ queries[r][k].ew_end = AskedWeek(r)
              /\ queries[r][k].ey_start = AskedYear(r)
              /\ queries[r][k].ey_end = AskedYear(r)

\* Two queries for week 54 of 2024 were sent.
C13_Witness ==
    \E r \in Requests :
        /\ Len(queries[r]) = 2
        /\ queries[r][2].ew_start = 54 /\ queries[r][2].ew_end = 54
        /\ queries[r][2].ey_start = 2024 /\ queries[r][2].ey_end = 2024

\* C14: the lookups of a request that are in flight never outnumber the
\* width of its pool.
C14_PoolWidthBoundsInFlight ==
    \A r \in Requests :
        Cardinality({ i \in 1..Len(futures[r]) : futures[r][i].state = "RUNNING" })
            <= max_workers

\* The pool is full: one lookup in flight at width 1 and another waiting.
C14_Witness ==
    \E r \in Requests :
        /\ max_workers = 1
        /\ Len(futures[r]) = 2
        /\ futures[r][1].state = "RUNNING"
        /\ futures[r][2].state = "PENDING"

\* C15: from the join of the features on, every municipality has a lookup
\* and every lookup has finished.
C15_AllLookupsFinishedBeforeJoin ==
    \A r \in Requests : Built(r) =>
        /\ Len(futures[r]) = Len(municipalities_info)
        /\ Len(completed[r]) = Len(municipalities_info)
        /\ \A i \in RegionIndices : futures[r][i].state = "FINISHED"

\* The join of the features began after two lookups finished, the second
\* one first.
C15_Witness ==
    \E r \in Requests :
        /\ pc[r] = "Aggregating"
        /\ completed[r] = <<2, 1>>
        /\ \A i \in 1..2 : futures[r][i].state = "FINISHED"

\* The queries of request r that ask for municipality i.
QueriesFor(r, i) ==
    { k \in 1..Len(queries[r]) :
        queries[r][k].geocode = municipalities_info[i].geocode }

\* C16: a request asks for a municipality at most once, whatever the answer,
\* and exactly once by the time its lookup has started.
C16_OneQueryPerMunicipality ==
    \A r \in Requests : \A i \in RegionIndices :
        /\ Cardinality(QueriesFor(r, i)) <= 1
        /\ i <= Len(futures[r]) /\ futures[r][i].state # "PENDING" =>
               Cardinality(QueriesFor(r, i)) = 1

\* The lookup of the first of two municipalities failed and the request
\* went on with two queries sent.
C16_Witness ==
    \E r \in Requests :
        /\ Built(r)
        /\ Len(municipalities_info) = 2
        /\ futures[r][1].response \in FailedLookups
        /\ Len(queries[r]) = 2

\* The stage that follows each stage.
StageOrder ==
    { <<"Idle", "Fetching">>, <<"Fetching", "Aggregating">>,
      <<"Aggregating", "Colorizing">>, <<"Colorizing", "Done">> }

\* C17: a request changes stage only to the next stage of Idle, Fetching,
\* Aggregating, Colorizing, Done, or by failing out of a stage before Done;
\* nothing leaves Done, and nothing leaves a failure.
C17_StagesInOrder ==
    [][\A r \in Requests : pc'[r] # pc[r] =>
           \/ <<pc[r], pc'[r]>> \in StageOrder
           \/ pc'[r] = "Error" /\ pc[r] \notin {"Done", "Error"}]_vars

\* A request is Done with both lookups finished and every feature coloured.
C17_Witness ==
    \E r \in Requests :
        /\ pc[r] = "Done"
        /\ Len(completed[r]) = 2
        /\ Len(fillColor[r]) = Len(base_geo_data)
        /\ colormap[r] # NoScale

\* C19: the keys of the mapping are the names of the municipality list, no
\* more and no fewer, a municipality whose lookup failed included.
C19_KeysAreMunicipalityNames ==
    \A r \in Requests : Built(r) =>
        DOMAIN dengue_cases[r] =
            { municipalities_info[i].name : i \in RegionIndices }

\* Two municipalities of different names, both lookups failed, both keys
\* present.
C19_Witness ==
    \E r \in Requests :
        /\ Built(r)
        /\ Len(municipalities_info) = 2
        /\ municipalities_info[1].name # municipalities_info[2].name
        /\ \A i \in 1..2 : futures[r][i].response \in FailedLookups
        /\ Cardinality(DOMAIN dengue_cases[r]) = 2

\* C20: when two entries of the municipality list have the same name, the
\* mapping holds under that name what the lookup of the later entry
\* returned.
C20_LaterEntryOfNameWins ==
    \A r \in Requests : Built(r) =>
        \A i, j \in RegionIndices :
            /\ i < j
            /\ municipalities_info[i].name = municipalities_info[j].name
            /\ IsLast(j)
            => dengue_cases[r][municipalities_info[j].name]
                   = futures[r][j].outcome.value[2]

\* Two entries of one name; the earlier returned 10 and finished last, the
\* later returned 0, and the mapping holds 0.
C20_Witness ==
    \E r \in Requests :
        /\ Built(r)
        /\ Len(municipalities_info) = 2
        /\ municipalities_info[1].name = municipalities_info[2].name
        /\ completed[r] = <<2, 1>>
        /\ futures[r][1].outcome.value[2] = 10
        /\ futures[r][2].outcome.value[2] = 0
        /\ dengue_cases[r][municipalities_info[1].name] = 0

====
